---- MODULE Spec2Model ----
(***************************************************************************)
(* Model of tela_final_creator.py: main, process_videos and                *)
(* create_final_screen.  File names are sequences of one-character         *)
(* strings, so that str.startswith and str.endswith are computed on the    *)
(* characters.  A directory is the sequence os.listdir returns for it.     *)
(***************************************************************************)
EXTENDS Integers, Sequences, FiniteSets, TLC

(* ----------------------------- bounds ---------------------------------- *)
MaxBackgroundFiles == 2
MaxSpecificFiles == 2

(* --------------------------- file names -------------------------------- *)
OverlayMp4 == <<"O","v","e","r","l","a","y"," ","T","e","l","a"," ","F","i","n","a","l",".","m","p","4">>
OverlayMOV == <<"O","v","e","r","l","a","y"," ","T","e","l","a"," ","F","i","n","a","l",".","M","O","V">>
ReadmeTxt == <<"r","e","a","d","m","e",".","t","x","t">>
Autoc20mp4 == <<"A","u","t","o","c","2","0",".","m","p","4">>
Autoc3avi == <<"A","u","t","o","c","3",".","a","v","i">>
Zeta5mp4 == <<"Z","e","t","a","5",".","m","p","4">>
Autoc1mp4 == <<"A","u","t","o","c","1",".","m","p","4">>
Autoc2Mov == <<"A","u","t","o","c","2",".","M","o","v">>
Zeta1avi == <<"Z","e","t","a","1",".","a","v","i">>
Digits20mov == <<"2","0","A","u","t","o","c",".","m","o","v">>

ScriptNames == {OverlayMp4, OverlayMOV, ReadmeTxt}
BackgroundNames == {Autoc20mp4, Autoc3avi, Zeta5mp4}
SpecificNames == {Autoc1mp4, Autoc2Mov, Zeta1avi, Digits20mov}

\* the durations a decoded clip can report: shorter and longer than the
\* configured duration
ClipDurations == {5, 30}

\* the listings of a directory: its files, each once, in any order
Listings(names, n) ==
  {s \in UNION {[1..k -> names] : k \in 0..n} :
     \A i, j \in DOMAIN s : i # j => s[i] # s[j]}

(* ------------------------- string functions ---------------------------- *)
StartsWith(f, p) == Len(p) <= Len(f) /\ SubSeq(f, 1, Len(p)) = p

EndsWith(f, s) == Len(s) <= Len(f) /\ SubSeq(f, Len(f) - Len(s) + 1, Len(f)) = s

\* f.endswith('.mp4') or f.endswith('.avi') or f.endswith('.mov')
Supported(f) ==
  \/ EndsWith(f, <<".","m","p","4">>)
  \/ EndsWith(f, <<".","a","v","i">>)
  \/ EndsWith(f, <<".","m","o","v">>)

(* ---------------------- parameters passed by main ---------------------- *)
Autoc == <<"A","u","t","o","c">>
Zeta == <<"Z","e","t","a">>
OverlayMarker == <<"O","v","e","r","l","a","y"," ","T","e","l","a"," ","F","i","n","a","l">>

background_prefix_other == Zeta

background_prefix == Autoc

duration == 20

\* the overlay files main finds in the script directory
OverlayFiles(listing) ==
  SelectSeq(listing, LAMBDA f : StartsWith(f, OverlayMarker) /\ Supported(f))

MainCheck_noSpecificCheck(overlayFiles, bgE, spE) ==
  IF overlayFiles = <<>> THEN "no_overlay"
  ELSE IF ~bgE THEN "no_background_folder"
  ELSE "ok"

\* the early returns of main, in the order of the code
MainCheck(overlayFiles, bgE, spE) ==
  IF overlayFiles = <<>> THEN "no_overlay"
  ELSE IF ~bgE THEN "no_background_folder"
  ELSE IF ~spE THEN "no_specific_folder"
  ELSE "ok"

\* the background files process_videos keeps
BackgroundVideos(listing) ==
  SelectSeq(listing, LAMBDA f : StartsWith(f, background_prefix) /\ Supported(f))

FirstOf_last(videos) == videos[Len(videos)]

\* background_videos[0]
FirstOf(videos) == videos[1]

\* the specific files process_videos keeps
SpecificVideos(listing) == SelectSeq(listing, Supported)

NextIndex_skip(i) == i + 2

\* the for loop advances by one file
NextIndex(i) == i + 1

Count_always(res, c) == c + 1

\* if create_final_screen(...): success_count += 1
Count(res, c) == IF res = "True" THEN c + 1 ELSE c

(* ----------------------- the clips of one call ------------------------- *)
\* clip.subclip(0, t_end): the layer ends at the t_end the caller asks for
SubclipEnd(own_duration, t_end) == t_end

SpecificEnd_uncut(own_duration, dur) == own_duration

\* if specific_clip.duration > duration: specific_clip.subclip(0, duration)
SpecificEnd(own_duration, dur) ==
  IF own_duration > dur THEN SubclipEnd(own_duration, dur) ELSE own_duration

Max2(a, b) == IF a >= b THEN a ELSE b

\* CompositeVideoClip: the composite lasts as long as its longest layer
CompositeDuration(e) == Max2(e.background, Max2(e.overlay, e.specific))

SetDuration_keep(composite_duration, dur) == composite_duration

\* final_clip.set_duration(duration)
SetDuration(composite_duration, dur) == dur

(* ------------------------------ state ---------------------------------- *)
VARIABLES
  scriptDir,        \* os.listdir(script_dir): at most one file next to the script
  bgExists, bgDir,  \* the folder "background" and its listing
  spExists, spDir,  \* the folder "cortes" and its listing
  outExists,        \* the folder "output", absent before the first run
  created,          \* os.makedirs(output_folder) was called
  outFiles,         \* the files write_videofile has written in "output"
  pc,               \* position of the program
  exitCode,         \* <<the value main returned>>, <<>> before
  overlay_video_path,
  background_video_path,
  specific_videos,
  idx,              \* position of the for loop in specific_videos
  success_count,
  result,           \* the value the last create_final_screen call returned
  returned,         \* <<the value process_videos returned>>, <<>> before
  own,              \* current call: the durations the decoded clips report
  ends,             \* current call: the durations of the layers and of the composite
  open,             \* the media handles opened and not closed, as <<call, clip>>
  jobs              \* history of the create_final_screen calls

vars == <<scriptDir, bgExists, bgDir, spExists, spDir, outExists, created, outFiles, pc,
          exitCode, overlay_video_path, background_video_path, specific_videos,
          idx, success_count, result, returned, own, ends, open, jobs>>

fsVars == <<scriptDir, bgExists, bgDir, spExists, spDir>>

pvVars == <<overlay_video_path, background_video_path, specific_videos, idx,
            success_count, returned>>

cfsVars == <<own, ends, open, jobs, result>>

NoPath == <<>>

NoClips == [background |-> 0, overlay |-> 0, specific |-> 0, final |-> 0]

Init ==
  /\ scriptDir \in {<<>>} \cup {<<f>> : f \in ScriptNames}
  /\ bgExists \in BOOLEAN
  /\ bgDir \in IF bgExists THEN Listings(BackgroundNames, MaxBackgroundFiles) ELSE {<<>>}
  /\ spExists \in BOOLEAN
  /\ spDir \in IF spExists THEN Listings(SpecificNames, MaxSpecificFiles) ELSE {<<>>}
  /\ outExists = FALSE
  /\ created = FALSE
  /\ outFiles = {}
  /\ pc = "main"
  /\ exitCode = <<>>
  /\ overlay_video_path = NoPath
  /\ background_video_path = NoPath
  /\ specific_videos = <<>>
  /\ idx = 0
  /\ success_count = 0
  /\ result = "none"
  /\ returned = <<>>
  /\ own = NoClips
  /\ ends = NoClips
  /\ open = {}
  /\ jobs = <<>>

(* ------------------------------- main ---------------------------------- *)
\* lines 178-185: no overlay file, return 1
MainNoOverlay ==
  /\ pc = "main"
  /\ MainCheck(OverlayFiles(scriptDir), bgExists, spExists) = "no_overlay"
  /\ pc' = "exit"
  /\ exitCode' = <<1>>
  /\ UNCHANGED <<fsVars, outExists, created, outFiles, pvVars, cfsVars>>

\* lines 190-193: no background folder, return 1
MainNoBackgroundFolder ==
  /\ pc = "main"
  /\ MainCheck(OverlayFiles(scriptDir), bgExists, spExists) = "no_background_folder"
  /\ pc' = "exit"
  /\ exitCode' = <<1>>
  /\ UNCHANGED <<fsVars, outExists, created, outFiles, pvVars, cfsVars>>

\* lines 195-198: no specific folder, return 1
MainNoSpecificFolder ==
  /\ pc = "main"
  /\ MainCheck(OverlayFiles(scriptDir), bgExists, spExists) = "no_specific_folder"
  /\ pc' = "exit"
  /\ exitCode' = <<1>>
  /\ UNCHANGED <<fsVars, outExists, created, outFiles, pvVars, cfsVars>>

\* lines 187, 200-218: call process_videos
MainCallProcess ==
  /\ pc = "main"
  /\ MainCheck(OverlayFiles(scriptDir), bgExists, spExists) = "ok"
  /\ overlay_video_path' = FirstOf(OverlayFiles(scriptDir))
  /\ pc' = "pv_start"
  /\ UNCHANGED <<fsVars, outExists, created, outFiles, exitCode, background_video_path,
                 specific_videos, idx, success_count, returned, cfsVars>>

\* lines 220-221: print the summary, return 0
MainReturn ==
  /\ pc = "main_return"
  /\ pc' = "exit"
  /\ exitCode' = <<0>>
  /\ UNCHANGED <<fsVars, outExists, created, outFiles, pvVars, cfsVars>>

(* --------------------------- process_videos ---------------------------- *)
\* lines 121-132: create the output folder; no background file, return 0
PVNoBackground ==
  /\ pc = "pv_start"
  /\ outExists' = TRUE
  /\ created' = ~outExists
  /\ BackgroundVideos(bgDir) = <<>>
  /\ returned' = <<0>>
  /\ pc' = "main_return"
  /\ UNCHANGED <<fsVars, outFiles, exitCode, overlay_video_path,
                 background_video_path, specific_videos, idx, success_count, cfsVars>>

\* lines 121-136: create the output folder; use the first background file
PVUseBackground ==
  /\ pc = "pv_start"
  /\ outExists' = TRUE
  /\ created' = ~outExists
  /\ BackgroundVideos(bgDir) # <<>>
  /\ background_video_path' = FirstOf(BackgroundVideos(bgDir))
  /\ pc' = "pv_specific"
  /\ UNCHANGED <<fsVars, outFiles, exitCode, overlay_video_path, specific_videos,
                 idx, success_count, returned, cfsVars>>

\* lines 139-144: no specific file, return 0
PVNoSpecific ==
  /\ pc = "pv_specific"
  /\ SpecificVideos(spDir) = <<>>
  /\ specific_videos' = <<>>
  /\ returned' = <<0>>
  /\ pc' = "main_return"
  /\ UNCHANGED <<fsVars, outExists, created, outFiles, exitCode, overlay_video_path,
                 background_video_path, idx, success_count, cfsVars>>

\* lines 139-147: the specific files, success_count = 0
PVLoopStart ==
  /\ pc = "pv_specific"
  /\ SpecificVideos(spDir) # <<>>
  /\ specific_videos' = SpecificVideos(spDir)
  /\ success_count' = 0
  /\ idx' = 0
  /\ pc' = "for_next"
  /\ UNCHANGED <<fsVars, outExists, created, outFiles, exitCode, overlay_video_path,
                 background_video_path, returned, cfsVars>>

\* lines 148-160: the next specific file, call create_final_screen
ForNext ==
  /\ pc = "for_next"
  /\ idx < Len(specific_videos)
  /\ idx' = NextIndex(idx)
  /\ jobs' = Append(jobs, [background |-> background_video_path,
                           specific |-> specific_videos[idx + 1],
                           overlay |-> overlay_video_path,
                           output |-> specific_videos[idx + 1],
                           key |-> background_prefix,
                           result |-> "running"])
  /\ pc' = "cfs_open_background"
  /\ UNCHANGED <<fsVars, outExists, created, outFiles, exitCode, overlay_video_path,
                 background_video_path, specific_videos, success_count, returned,
                 own, ends, open, result>>

\* lines 152, 161-162: count the call if it returned True
ForAfter ==
  /\ pc = "for_after"
  /\ success_count' = Count(result, success_count)
  /\ pc' = "for_next"
  /\ UNCHANGED <<fsVars, outExists, created, outFiles, exitCode, overlay_video_path,
                 background_video_path, specific_videos, idx, returned, cfsVars>>

\* line 164: the loop is over, return success_count
PVReturn ==
  /\ pc = "for_next"
  /\ idx >= Len(specific_videos)
  /\ returned' = <<success_count>>
  /\ pc' = "main_return"
  /\ UNCHANGED <<fsVars, outExists, created, outFiles, exitCode, overlay_video_path,
                 background_video_path, specific_videos, idx, success_count, cfsVars>>

(* ------------------------- create_final_screen ------------------------- *)
call == Len(jobs)

JobUnchanged == UNCHANGED <<fsVars, outExists, created, exitCode, pvVars, jobs, result>>

\* a step that raises goes to the except clause
Goto(ok, next) == pc' = IF ok THEN next ELSE "cfs_except"

\* line 44: VideoFileClip(background_video_path).resize(resolution)
CFSOpenBackground ==
  /\ pc = "cfs_open_background"
  /\ \E opened, ok \in BOOLEAN, d \in ClipDurations :
       /\ ok => opened
       /\ open' = IF opened THEN open \cup {<<call, "background">>} ELSE open
       /\ own' = IF opened THEN [own EXCEPT !.background = d] ELSE own
       /\ Goto(ok, "cfs_open_overlay")
  /\ UNCHANGED <<ends, outFiles>>
  /\ JobUnchanged

\* line 45: VideoFileClip(overlay_video_path).resize(resolution)
CFSOpenOverlay ==
  /\ pc = "cfs_open_overlay"
  /\ \E opened, ok \in BOOLEAN, d \in ClipDurations :
       /\ ok => opened
       /\ open' = IF opened THEN open \cup {<<call, "overlay">>} ELSE open
       /\ own' = IF opened THEN [own EXCEPT !.overlay = d] ELSE own
       /\ Goto(ok, "cfs_open_specific")
  /\ UNCHANGED <<ends, outFiles>>
  /\ JobUnchanged

\* line 46: VideoFileClip(specific_video_path)
CFSOpenSpecific ==
  /\ pc = "cfs_open_specific"
  /\ \E ok \in BOOLEAN, d \in ClipDurations :
       /\ open' = IF ok THEN open \cup {<<call, "specific">>} ELSE open
       /\ own' = IF ok THEN [own EXCEPT !.specific = d] ELSE own
       /\ Goto(ok, "cfs_trim")
  /\ UNCHANGED <<ends, outFiles>>
  /\ JobUnchanged

\* lines 49-54: cut the three clips
CFSTrim ==
  /\ pc = "cfs_trim"
  /\ \E ok \in BOOLEAN :
       /\ ends' = IF ok
                  THEN [ends EXCEPT !.background = SubclipEnd(own.background, duration),
                                    !.overlay = SubclipEnd(own.overlay, duration),
                                    !.specific = SpecificEnd(own.specific, duration)]
                  ELSE ends
       /\ Goto(ok, "cfs_resize")
  /\ UNCHANGED <<own, open, outFiles>>
  /\ JobUnchanged

\* lines 57-64: resize and place the specific clip
CFSResize ==
  /\ pc = "cfs_resize"
  /\ \E ok \in BOOLEAN : Goto(ok, "cfs_composite")
  /\ UNCHANGED <<own, ends, open, outFiles>>
  /\ JobUnchanged

\* lines 67-74: CompositeVideoClip(...) then set_duration(duration)
CFSComposite ==
  /\ pc = "cfs_composite"
  /\ \E built, ok \in BOOLEAN :
       /\ ok => built
       /\ open' = IF built THEN open \cup {<<call, "final">>} ELSE open
       /\ ends' = IF ok
                  THEN [ends EXCEPT !.final = SetDuration(CompositeDuration(ends), duration)]
                  ELSE IF built THEN [ends EXCEPT !.final = CompositeDuration(ends)]
                  ELSE ends
       /\ Goto(ok, "cfs_encode")
  /\ UNCHANGED <<own, outFiles>>
  /\ JobUnchanged

\* lines 77-84: write_videofile(output_path, ...); a failed encode may leave a file
CFSEncode ==
  /\ pc = "cfs_encode"
  /\ \E ok, written \in BOOLEAN :
       /\ ok => written
       /\ outFiles' = IF written
                      THEN outFiles \cup {[name |-> jobs[call].output,
                                           duration |-> IF ok THEN ends.final ELSE 0,
                                           complete |-> ok]}
                      ELSE outFiles
       /\ Goto(ok, "cfs_close")
  /\ UNCHANGED <<own, ends, open>>
  /\ JobUnchanged

\* lines 87-93: close the four clips, return True
CFSClose ==
  /\ pc = "cfs_close"
  /\ open' = open \ {<<call, c>> : c \in {"background", "overlay", "specific", "final"}}
  /\ result' = "True"
  /\ jobs' = [jobs EXCEPT ![call].result = "True"]
  /\ own' = NoClips
  /\ ends' = NoClips
  /\ pc' = "for_after"
  /\ UNCHANGED <<fsVars, outExists, created, outFiles, exitCode, pvVars>>

\* lines 95-97: any exception, return False
CFSExcept ==
  /\ pc = "cfs_except"
  /\ result' = "False"
  /\ jobs' = [jobs EXCEPT ![call].result = "False"]
  /\ own' = NoClips
  /\ ends' = NoClips
  /\ pc' = "for_after"
  /\ UNCHANGED <<fsVars, outExists, created, outFiles, exitCode, pvVars, open>>

Next ==
  \/ MainNoOverlay \/ MainNoBackgroundFolder \/ MainNoSpecificFolder
  \/ MainCallProcess \/ MainReturn
  \/ PVNoBackground \/ PVUseBackground \/ PVNoSpecific \/ PVLoopStart
  \/ ForNext \/ ForAfter \/ PVReturn
  \/ CFSOpenBackground \/ CFSOpenOverlay \/ CFSOpenSpecific \/ CFSTrim
  \/ CFSResize \/ CFSComposite \/ CFSEncode \/ CFSClose \/ CFSExcept

Spec == Init /\ [][Next]_vars

(* ====================== the properties of the program ================== *)
Digits == {"0", "1", "2", "3", "4", "5", "6", "7", "8", "9"}

\* the file name without its extension (the text before its last dot)
Stem(f) ==
  LET dots == {i \in 2..Len(f) : f[i] = "."}
  IN IF dots = {} THEN f
     ELSE SubSeq(f, 1, (CHOOSE i \in dots : \A j \in dots : j <= i) - 1)

\* the maximal leading run of non-digit characters of the stem; <<>> is absent
Prefix(f) ==
  LET s == Stem(f)
      run == {k \in 0..Len(s) : \A i \in 1..k : s[i] \notin Digits}
  IN SubSeq(s, 1, CHOOSE k \in run : \A j \in run : j <= k)

LowerChar(c) ==
  CASE c = "M" -> "m" [] c = "P" -> "p" [] c = "A" -> "a" [] c = "V" -> "v"
    [] c = "I" -> "i" [] c = "O" -> "o" [] OTHER -> c

Lower(f) == [i \in DOMAIN f |-> LowerChar(f[i])]

\* extension .mp4, .avi or .mov, compared exactly
HasMediaExtension(f) ==
  /\ Len(f) >= 4
  /\ SubSeq(f, Len(f) - 3, Len(f)) \in
       {<<".","m","p","4">>, <<".","a","v","i">>, <<".","m","o","v">>}

\* the background files a batch can use: fixed prefix "Autoc", media extension
FixedPrefixBackground(b) == StartsWith(b, Autoc) /\ HasMediaExtension(b)

Failed == {i \in DOMAIN jobs : jobs[i].result = "False"}

Enumerated == {k \in DOMAIN spDir : HasMediaExtension(spDir[k])}

BatchReturned == returned # <<>>

OverlayFound ==
  \E k \in DOMAIN scriptDir :
    StartsWith(scriptDir[k], OverlayMarker) /\ HasMediaExtension(scriptDir[k])

\* C3: main returns 1 exactly when no overlay file is found or one of the two
\* folders is missing, and then process_videos was not called: no output folder
\* made, no call, no output file; otherwise it returns 0 after the batch.
C3_ExitCode ==
  exitCode # <<>> =>
    /\ exitCode \in {<<0>>, <<1>>}
    /\ exitCode = <<1>> <=> (~OverlayFound \/ ~bgExists \/ ~spExists)
    /\ exitCode = <<1>> =>
         /\ returned = <<>>
         /\ ~created
         /\ jobs = <<>>
         /\ outFiles = {}
         /\ open = {}
    /\ exitCode = <<0>> => BatchReturned

\* the overlay and the background folder are there, the specific folder is not
C3_Witness ==
  /\ exitCode = <<1>>
  /\ OverlayFound
  /\ bgExists
  /\ ~spExists

\* C4: process_videos never stops before its return; every enumerated specific
\* file is attempted exactly once, in order, whatever calls fail.
C4_Isolation ==
  /\ pc # "exit" => ENABLED Next
  /\ \A i, j \in DOMAIN jobs : i # j => jobs[i].specific # jobs[j].specific
  /\ \A i \in DOMAIN jobs : jobs[i].specific = specific_videos[i]
  /\ (BatchReturned /\ background_video_path # NoPath) =>
       /\ Len(jobs) = Cardinality(Enumerated)
       /\ \A i \in DOMAIN jobs : jobs[i].result \in {"True", "False"}
       /\ {jobs[i].specific : i \in DOMAIN jobs} = {spDir[k] : k \in Enumerated}
       /\ returned[1] + Cardinality(Failed) = Len(jobs)

\* the first call failed and the second file was still rendered
C4_Witness ==
  /\ BatchReturned
  /\ Len(jobs) = 2
  /\ jobs[1].result = "False"
  /\ jobs[2].result = "True"

C7_CaseInsensitive ==
  (BatchReturned /\ background_video_path # NoPath) =>
    \A k \in DOMAIN spDir :
      HasMediaExtension(Lower(spDir[k])) <=> \E i \in DOMAIN jobs : jobs[i].specific = spDir[k]

\* C8: every complete output lasts the configured duration; the specific layer
\* is cut to the configured duration when the clip is longer, and the composite
\* handed to the encoder lasts the configured duration.
C8_OutputDuration ==
  /\ \A o \in outFiles : o.complete => o.duration = 20
  /\ pc \in {"cfs_resize", "cfs_composite", "cfs_encode", "cfs_close"} =>
       /\ ends.specific <= 20
       /\ ends.specific = IF own.specific > 20 THEN 20 ELSE own.specific
  /\ pc \in {"cfs_encode", "cfs_close"} => ends.final = 20

\* a 30 s specific clip was rendered
C8_Witness ==
  /\ pc = "cfs_close"
  /\ own.specific = 30
  /\ \E o \in outFiles : o.name = jobs[Len(jobs)].output /\ o.complete /\ o.duration = 20

\* C9 as stated: a call begins only after the earlier calls have returned and
\* all the handles they opened are released, also after a failed call.
C9_SequentialReleased ==
  pc = "cfs_open_background" =>
    /\ \A i \in 1..(Len(jobs) - 1) : jobs[i].result # "running"
    /\ open = {}

Min2(a, b) == IF a <= b THEN a ELSE b

\* C10 as stated: the background and the overlay layer end at
\* min(duration, own duration).
C10_LayerEndWithinClip ==
  pc \in {"cfs_resize", "cfs_composite", "cfs_encode", "cfs_close"} =>
    /\ ends.background = Min2(20, own.background)
    /\ ends.overlay = Min2(20, own.overlay)
====
